---- MODULE Spec2Model ----
(***************************************************************************)
(* Model of the Nextflow pipeline dashboard (Streamlit pages).             *)
(*                                                                         *)
(*   app_pages/2_history.py   run-history load (cached), filter stage      *)
(*   app_pages/3_detail.py    run-detail view: cached session, artifacts   *)
(*   app_pages/3_configuration.py   existence checks of table and stage   *)
(*   conf.py                  configuration registry                       *)
(*                                                                         *)
(* A Streamlit page is a script that is executed top to bottom on every    *)
(* render; one render is one action.  Timestamps are whole seconds.  The   *)
(* column EXECUTION_TIME_MINUTES holds minutes as a fixed-point number:    *)
(* the model stores the number of seconds, i.e. minutes * 60, so that      *)
(* fractional minutes are exact.                                           *)
(***************************************************************************)
EXTENDS Integers, Sequences, FiniteSets, TLC

VARIABLES
    \* ---- app_pages/2_history.py ----
    source,           \* the run-history source: [mode, rows]
    cache_data,       \* st.cache_data: memoized load_pipeline_data results
    selected_option,  \* hours_back of the selectbox
    hist_pc,          \* "idle" | "rerun" (st.rerun() requested)
    load_info,        \* how the last render's load was served
    pipeline_df,      \* frame returned by load_pipeline_data in the last render
    messages,         \* status elements shown by the last render
    criteria,         \* filter widget values read by the last render
    filter_outcome,   \* "none" | "applied" | "error"
    filtered_df,      \* frame the last render displays
    widgets,          \* filter widget values as the last render read them
    metrics,          \* the metrics row of the last render
    table,            \* the run table of the last render and its controls
    \* ---- app_pages/3_detail.py ----
    session_cache,    \* st.cache_resource entry of get_snowflake_session
    sessions_opened,  \* number of conn.session() calls that succeeded
    store,            \* artifact store: [up, denied, files]
    selected_run_name,\* st.session_state["selected_run_name"]
    query_param,      \* st.query_params["run_name"] ("" when unset)
    run_name_input,   \* state of the text_input widget (None before it exists)
    view,             \* what the last render of the detail page did
    \* ---- shared by the pages ----
    query_cache,      \* results memoized by conn.query, by SQL text
    \* ---- app_pages/3_configuration.py ----
    resources,        \* what the probes find: [up, table, stage]
    check_cache,      \* st.cache_data entries of the two existence checks
    config_pc,        \* "idle" | "rerun" | "summary" (script position)
    config_view       \* what the last render of the configuration page did

histVars == <<source, cache_data, selected_option, hist_pc, load_info,
              pipeline_df, messages, criteria, filter_outcome, filtered_df,
              widgets, metrics, table>>
detailVars == <<session_cache, sessions_opened, store, selected_run_name,
                query_param, run_name_input, view>>
configVars == <<resources, check_cache, config_pc, config_view>>

vars == <<histVars, detailVars, query_cache, configVars>>

-----------------------------------------------------------------------------
(* Bounds of the model *)

\* largest number of runs the history source holds
MaxRuns == 3
\* largest number of artifacts in the stage
MaxFiles == 2
\* largest number of sessions opened in one behaviour
MaxSessions == 3
\* longest run, in seconds, that the execution time format is applied to
MaxDuration == 3750

-----------------------------------------------------------------------------
(* Values *)

\* A nullable value is a sequence: empty when missing, else of its value.
NaT == <<>>      \* pandas missing timestamp
NaN == <<>>      \* pandas missing float
Some(v) == <<v>>
IsNull(x) == Len(x) = 0
Val(x) == x[1]
None == "None"

SecondsPerMinute == 60
SecondsPerHour == 60 * SecondsPerMinute
HoursPerDay == 24
SecondsPerDay == HoursPerDay * SecondsPerHour

\* int(x) of a fixed-point value n/d: truncation toward zero
IntTrunc(n, d) == IF n >= 0 THEN n \div d ELSE -((-n) \div d)

SetMax(S) == CHOOSE x \in S : \A y \in S : y <= x
SetMin(S) == CHOOSE x \in S : \A y \in S : x <= y

Range(s) == {s[i] : i \in 1..Len(s)}

-----------------------------------------------------------------------------
(* The run-history source (INFORMATION_SCHEMA.QUERY_HISTORY_BY_USER)       *)

\* CURRENT_TIMESTAMP() of the source
CurrentTimestamp == 3 * SecondsPerDay

RawColumns == {"QUERY_ID", "START_TIME", "END_TIME", "EXECUTION_STATUS",
               "DATABASE_NAME", "QUERY_TEXT"}

Row(id, start, end, status, database, text) ==
    [QUERY_ID |-> id, START_TIME |-> start, END_TIME |-> end,
     EXECUTION_STATUS |-> status, DATABASE_NAME |-> database, QUERY_TEXT |-> text]

\* Rows the source may hold.  q1..q3 are the three runs of the filter
\* example (10, 20 and 0 minutes); q4 has no START_TIME; q5 ran 1.5
\* minutes three days ago; q6 ends before it starts (clock skew); q7 is in
\* progress (no END_TIME).  q3 and q5 ran without a database.
RunPool ==
    { Row("q1", Some(2 * SecondsPerDay + 84000 - 600), Some(2 * SecondsPerDay + 84000), "SUCCESS", Some("DB"), "job"),
      Row("q2", Some(2 * SecondsPerDay + 50000 - 1200), Some(2 * SecondsPerDay + 50000), "FAILED", Some("DB"), "run"),
      Row("q3", Some(1 * SecondsPerDay + 900), Some(1 * SecondsPerDay + 900), "SUCCESS", NaN, "job"),
      Row("q4", NaT, Some(2 * SecondsPerDay + 600), "SUCCESS", Some("DB"), "job"),
      Row("q5", Some(7200 - 90), Some(7200), "SUCCESS", NaN, "run"),
      Row("q6", Some(1 * SecondsPerDay + 400), Some(1 * SecondsPerDay + 100), "FAILED", Some("DB"), "job"),
      Row("q7", Some(2 * SecondsPerDay + 85000), NaT, "RUNNING", Some("DB"), "job") }

\* ORDER BY end_time DESC (NULLs sort first in a descending order)
EndKey(r) == IF IsNull(r.END_TIME) THEN CurrentTimestamp + 1 ELSE Val(r.END_TIME)

RECURSIVE OrderByEndTimeDesc(_)
OrderByEndTimeDesc(S) ==
    IF S = {} THEN <<>>
    ELSE LET top == CHOOSE r \in S : \A o \in S : EndKey(o) <= EndKey(r)
         IN  <<top>> \o OrderByEndTimeDesc(S \ {top})

PoolRow(id) == CHOOSE r \in RunPool : r.QUERY_ID = id

\* Order in which the runs of RunPool are recorded by the source
SourceTimeline == <<"q3", "q2", "q7", "q1", "q5", "q6", "q4">>

\* The source either answers or refuses; a refusal is an exception whose
\* text is a sequence of phrases.
SourceModes == {"ok", "retention", "connection", "permission"}

ErrorText(mode) ==
    CASE mode = "retention"  -> <<"Cannot retrieve data", "from", "more than 7 days ago">>
      [] mode = "connection" -> <<"Failed to connect to Snowflake">>
      [] mode = "permission" -> <<"Insufficient privileges to operate on function">>

\* str.__contains__ on the exception text
Contains(text, phrase) == phrase \in Range(text)

\* The time_options of the selectbox, in hours, and the option selected on
\* the first render (index=4)
time_options == <<1, 2, 6, 12, 24, 48, 72>>
DefaultOptionIndex == 5
\* the options a user picks in the model
UserOptions == {time_options[DefaultOptionIndex], time_options[7]}

\* conn.query(query): the rows whose END_TIME lies in
\* [CURRENT_TIMESTAMP - days_back, CURRENT_TIMESTAMP], newest first; a run
\* in progress has no END_TIME and is listed for every window.  days_back
\* is hours_back / 24.0 days, i.e. hours_back hours.
InWindow(r, hours_back) ==
    \/ IsNull(r.END_TIME)
    \/ /\ Val(r.END_TIME) >= CurrentTimestamp - hours_back * SecondsPerHour
       /\ Val(r.END_TIME) <= CurrentTimestamp

QueryRows(rows, hours_back) ==
    OrderByEndTimeDesc({r \in rows : InWindow(r, hours_back)})

-----------------------------------------------------------------------------
(* Frames (pandas.DataFrame): a set of columns and a sequence of rows      *)

EmptyDataFrame == [columns |-> {}, rows |-> <<>>]

IsEmpty(df) == Len(df.rows) = 0

\* Series.dt.date: the calendar day of a timestamp (NaT stays NaT)
DateOf(ts) == IF IsNull(ts) THEN NaT ELSE Some(Val(ts) \div SecondsPerDay)

\* lines 67-74: derived columns, added only when the frame has rows
AddDerived(r) ==
    [QUERY_ID |-> r.QUERY_ID, START_TIME |-> r.START_TIME,
     END_TIME |-> r.END_TIME, EXECUTION_STATUS |-> r.EXECUTION_STATUS,
     DATABASE_NAME |-> r.DATABASE_NAME, QUERY_TEXT |-> r.QUERY_TEXT,
     EXECUTION_TIME_MINUTES |->
        IF IsNull(r.END_TIME) \/ IsNull(r.START_TIME) THEN NaN
        ELSE Some(Val(r.END_TIME) - Val(r.START_TIME)),
     DATE |-> DateOf(r.END_TIME)]

Normalize(rows) ==
    IF Len(rows) = 0 THEN [columns |-> RawColumns, rows |-> <<>>]
    ELSE [columns |-> RawColumns \cup {"EXECUTION_TIME_MINUTES", "DATE"},
          rows |-> [i \in 1..Len(rows) |-> AddDerived(rows[i])]]

\* an empty slot of a memo
NoEntry == <<>>

\* lines 41-63: the SQL text of the history query; the f-string differs by
\* days_back only
history_query(hours_back) == "QUERY_HISTORY_BY_USER " \o ToString(hours_back)

\* the history query executed at the source: a frame, or an exception
\* carrying a text
execute_query(src, hours_back) ==
    IF src.mode = "ok"
    THEN [raised |-> FALSE, df |-> [columns |-> RawColumns,
                                    rows |-> QueryRows(src.rows, hours_back)]]
    ELSE [raised |-> TRUE, text |-> ErrorText(src.mode)]

\* st.connection("snowflake") and conn.query(query): a frame, or an
\* exception carrying a text.  conn.query memoizes the frame it returns by
\* SQL text (its ttl parameter is left at None: no expiry) and memoizes no
\* exception; sent tells whether the query went to the source, origin
\* the source the frame was read from.
conn_query(src, hours_back) ==
    LET memo == query_cache[history_query(hours_back)]
        now == [source |-> src, window |-> hours_back]
    IN  IF memo # NoEntry
        THEN [raised |-> FALSE, df |-> memo[1].df, sent |-> FALSE,
              origin |-> memo[1].origin]
        ELSE LET ans == execute_query(src, hours_back)
             IN  IF ans.raised
                 THEN [raised |-> TRUE, text |-> ans.text, sent |-> TRUE,
                       origin |-> now]
                 ELSE [raised |-> FALSE, df |-> ans.df, sent |-> TRUE,
                       origin |-> now]

\* load_pipeline_data(days_back) when it is executed (a cache miss): the
\* value it returns, the elements it shows, and whether an exception
\* leaves it.  The except clause catches every Exception and returns.
load_result(res) ==
        IF ~res.raised
        THEN [value |-> Normalize(res.df.rows), elements |-> {}, raised |-> FALSE,
              query |-> res]
        ELSE LET error_msg == res.text
             IN  [value |-> EmptyDataFrame,
                  elements |->
                     IF Contains(error_msg, "more than 7 days ago")
                          \/ Contains(error_msg, "Cannot retrieve data")
                     THEN {"error: query history limitation", "info: reduce time range"}
                     ELSE {"error: connecting to Snowflake"},
                  raised |-> FALSE, query |-> res]

load_pipeline_data(src, hours_back) == load_result(conn_query(src, hours_back))

\* the frame the load returns when its query is executed at the source src
LoadedFrom(src, hours_back) == load_result(execute_query(src, hours_back)).value

-----------------------------------------------------------------------------
(* The filter stage of the history page (lines 142-249)                    *)

NonNull(df, col) ==
    {Val(df.rows[i][col]) : i \in {j \in 1..Len(df.rows) : ~IsNull(df.rows[j][col])}}

HasNull(df, col) == \E i \in 1..Len(df.rows) : IsNull(df.rows[i][col])

\* pipeline_df['END_TIME'].dt.date.min() / .max()
min_date(df) == SetMin(NonNull(df, "DATE"))
max_date(df) == SetMax(NonNull(df, "DATE"))

\* a default start date that is the earliest date loaded
default_start_date_Earliest(df) == min_date(df)

\* lines 163-168
default_start_date(df) ==
    IF max_date(df) - min_date(df) = 0 THEN min_date(df)
    ELSE IF min_date(df) >= max_date(df) - 1 THEN min_date(df) ELSE max_date(df) - 1

\* line 194
available_statuses(df) == {df.rows[i].EXECUTION_STATUS : i \in 1..Len(df.rows)}

\* line 205: int(max()) + 1, in whole minutes
max_minutes(df) ==
    IntTrunc(SetMax(NonNull(df, "EXECUTION_TIME_MINUTES")), SecondsPerMinute) + 1

\* step of the execution time slider
SliderStep == 5
SliderValues(df) ==
    {v \in 0..max_minutes(df) : v % SliderStep = 0 \/ v = max_minutes(df)}

HasRuntime(df) == "EXECUTION_TIME_MINUTES" \in df.columns

\* line 216: the range used when the frame has no duration column
FallbackMaxMinutes == 2880
FallbackRuntimeRange == <<0, FallbackMaxMinutes>>

\* lines 204-216: the ranges the slider offers, its default, or the fallback
RuntimeRanges(df) ==
    IF HasRuntime(df)
    THEN {<<lo, hi>> : lo \in SliderValues(df), hi \in SliderValues(df)}
    ELSE {FallbackRuntimeRange}

FullRuntimeRange(df) ==
    IF HasRuntime(df) THEN <<0, max_minutes(df)>> ELSE FallbackRuntimeRange

\* What Series.min() does on a date column that holds NaT is fixed by the
\* pandas build, not by the page: it raises, or it skips the NaT.
NaTPolicies == {"raise", "skip"}

\* lines 150-216 raise (and the except clause of line 241 runs) when
\*   - no END_TIME is present: min_date is NaT and (max - min).days fails,
\*   - a NaT is among the dates and min() raises,
\*   - no duration is present: int(NaN) raises ValueError,
\*   - the largest duration is negative: the slider's max_value is below
\*     its min_value of 0.
WidgetsRaise(df, policy) ==
    \/ NonNull(df, "DATE") = {}
    \/ HasNull(df, "DATE") /\ policy = "raise"
    \/ /\ HasRuntime(df)
       /\ \/ NonNull(df, "EXECUTION_TIME_MINUTES") = {}
          \/ max_minutes(df) < 0

\* the widget values of a first render
DefaultWidgets(df) ==
    [start_date |-> default_start_date(df), end_date |-> max_date(df),
     status_filter |-> available_statuses(df),
     runtime_range |-> FullRuntimeRange(df)]

\* the widest values the widgets offer
WidestWidgets(df) ==
    [start_date |-> min_date(df), end_date |-> max_date(df),
     status_filter |-> {}, runtime_range |-> FullRuntimeRange(df)]

\* every value a user can leave in the widgets
AllWidgets(df) ==
    {[start_date |-> sd, end_date |-> ed, status_filter |-> sf,
      runtime_range |-> rr] :
        sd \in min_date(df)..max_date(df), ed \in min_date(df)..max_date(df),
        sf \in SUBSET available_statuses(df),
        rr \in RuntimeRanges(df)}

WidgetChoices(df, all) ==
    IF all THEN {w \in AllWidgets(df) : w.runtime_range[1] <= w.runtime_range[2]}
    ELSE {DefaultWidgets(df), WidestWidgets(df)}

\* lines 186-190: an inverted date range is replaced by the full range
ValidateDates(df, w) ==
    IF w.start_date > w.end_date
    THEN [w EXCEPT !.start_date = min_date(df), !.end_date = max_date(df)]
    ELSE w

\* lines 222-225
DateMask(r, c) ==
    /\ ~IsNull(r.END_TIME)
    /\ Val(DateOf(r.END_TIME)) >= c.start_date
    /\ Val(DateOf(r.END_TIME)) <= c.end_date

\* lines 228-229
StatusMask(r, c) == r.EXECUTION_STATUS \in c.status_filter

\* lines 232-236; the slider is in minutes
RuntimeMask(r, c) ==
    /\ ~IsNull(r.EXECUTION_TIME_MINUTES)
    /\ Val(r.EXECUTION_TIME_MINUTES) >= c.runtime_range[1] * SecondsPerMinute
    /\ Val(r.EXECUTION_TIME_MINUTES) <= c.runtime_range[2] * SecondsPerMinute

\* the filter stage without its execution time step
ApplyFilters_SkipRuntime(df, c) ==
    LET ByDate(r) == DateMask(r, c)
        ByStatus(r) == StatusMask(r, c)
        step1 == SelectSeq(df.rows, ByDate)
        step2 == IF c.status_filter # {} THEN SelectSeq(step1, ByStatus) ELSE step1
    IN  [columns |-> df.columns, rows |-> step2]

\* a filter stage that keeps no run when the duration column is missing
ApplyFilters_NoColumnNoRows(df, c) ==
    LET ByDate(r) == DateMask(r, c)
        ByStatus(r) == StatusMask(r, c)
        ByRuntime(r) == RuntimeMask(r, c)
        step1 == SelectSeq(df.rows, ByDate)
        step2 == IF c.status_filter # {} THEN SelectSeq(step1, ByStatus) ELSE step1
        step3 == IF HasRuntime(df) THEN SelectSeq(step2, ByRuntime) ELSE <<>>
    IN  [columns |-> df.columns, rows |-> step3]

\* lines 218-236
ApplyFilters(df, c) ==
    LET ByDate(r) == DateMask(r, c)
        ByStatus(r) == StatusMask(r, c)
        ByRuntime(r) == RuntimeMask(r, c)
        step1 == SelectSeq(df.rows, ByDate)
        step2 == IF c.status_filter # {} THEN SelectSeq(step1, ByStatus) ELSE step1
        step3 == IF HasRuntime(df) THEN SelectSeq(step2, ByRuntime) ELSE step2
    IN  [columns |-> df.columns, rows |-> step3]

\* lines 147-249
FilterBlock(df, w, policy) ==
    IF IsEmpty(df)
    THEN [outcome |-> "none", widgets |-> <<>>, criteria |-> <<>>,
          filtered_df |-> EmptyDataFrame,
          elements |-> {"info: load data to enable filters"}]
    ELSE IF WidgetsRaise(df, policy)
    THEN [outcome |-> "error", widgets |-> <<>>, criteria |-> <<>>,
          filtered_df |-> df,
          elements |-> {"error: applying filters", "info: using unfiltered data"}]
    ELSE LET c == ValidateDates(df, w)
         IN  [outcome |-> "applied", widgets |-> <<w>>, criteria |-> <<c>>,
              filtered_df |-> ApplyFilters(df, c),
              elements |-> {"success: showing"}
                 \cup IF c # w THEN {"error: start date after end date"} ELSE {}]

-----------------------------------------------------------------------------
(* Metrics row and execution time format (lines 17-36, 254-295)            *)

\* A float is NaN or the fraction num/den of whole numbers, den > 0.  A
\* value in minutes is held as its number of seconds.
Ratio(n, d) == <<n, d>>
Num(x) == x[1]
Den(x) == x[2]
AsRatio(x) == IF IsNull(x) THEN NaN ELSE Ratio(Val(x), 1)

\* a format without the rule that an empty result shows the seconds
format_execution_time_NoZeroRule(minutes) ==
    IF IsNull(minutes) \/ Num(minutes) = 0 THEN "0sec"
    ELSE LET total_seconds == IntTrunc(Num(minutes), Den(minutes))
             hours == total_seconds \div SecondsPerHour
             remaining_seconds == total_seconds % SecondsPerHour
             mins == remaining_seconds \div SecondsPerMinute
             secs == remaining_seconds % SecondsPerMinute
         IN  (IF hours > 0 THEN ToString(hours) \o "hr" ELSE "")
                \o (IF mins > 0 THEN ToString(mins) \o "min" ELSE "")
                \o (IF secs > 0 THEN ToString(secs) \o "sec" ELSE "")

\* lines 17-36; minutes * 60 is the value held
format_execution_time(minutes) ==
    IF IsNull(minutes) \/ Num(minutes) = 0 THEN "0sec"
    ELSE LET total_seconds == IntTrunc(Num(minutes), Den(minutes))
             hours == total_seconds \div SecondsPerHour
             remaining_seconds == total_seconds % SecondsPerHour
             mins == remaining_seconds \div SecondsPerMinute
             secs == remaining_seconds % SecondsPerMinute
             hr_part == IF hours > 0 THEN ToString(hours) \o "hr" ELSE ""
             min_part == IF mins > 0 THEN ToString(mins) \o "min" ELSE ""
             sec_part == IF secs > 0 \/ (hr_part = "" /\ min_part = "")
                         THEN ToString(secs) \o "sec" ELSE ""
         IN  hr_part \o min_part \o sec_part

RECURSIVE SumSeq(_)
SumSeq(s) == IF Len(s) = 0 THEN 0 ELSE Head(s) + SumSeq(Tail(s))

\* the values of a column that are present, in row order
DropNa(df, col) ==
    LET Present(r) == ~IsNull(r[col])
        kept == SelectSeq(df.rows, Present)
    IN  [i \in 1..Len(kept) |-> Val(kept[i][col])]

\* a mean that divides by the number of rows
series_mean_CountAll(df, col) ==
    LET v == DropNa(df, col)
    IN  IF Len(v) = 0 THEN NaN ELSE Ratio(SumSeq(v), Len(df.rows))

\* Series.mean() and Series.sum() skip missing values; the mean of none is NaN
series_mean(df, col) ==
    LET v == DropNa(df, col)
    IN  IF Len(v) = 0 THEN NaN ELSE Ratio(SumSeq(v), Len(v))
series_sum(df, col) == Ratio(SumSeq(DropNa(df, col)), 1)

CountStatus(df, status) ==
    LET Is(r) == r.EXECUTION_STATUS = status
    IN  Len(SelectSeq(df.rows, Is))

\* round half to even of n/d for n >= 0
RoundHalfEven(n, d) ==
    LET q == n \div d
        r == n % d
    IN  IF 2 * r < d THEN q
        ELSE IF 2 * r > d THEN q + 1
        ELSE IF q % 2 = 0 THEN q ELSE q + 1

\* f"{x:.1f}"
Format1f(x) ==
    LET tenths == RoundHalfEven(10 * Num(x), Den(x))
    IN  ToString(tenths \div 10) \o "." \o ToString(tenths % 10)

ZeroMetrics ==
    [total_runs |-> 0, avg_execution_time_minutes |-> Ratio(0, 1),
     success_rate |-> Ratio(0, 1), total_compute_minutes |-> Ratio(0, 1),
     runs_delta |-> 0, raised |-> FALSE]

\* lines 256-264 without the test of line 255
ComputeMetrics(fdf, pdf) ==
    LET total_runs == Len(fdf.rows)
        prev_period_runs ==
            IF Len(pdf.rows) > total_runs THEN Len(pdf.rows) - total_runs ELSE 0
    IN  [total_runs |-> total_runs,
         avg_execution_time_minutes |->
            IF HasRuntime(fdf) THEN series_mean(fdf, "EXECUTION_TIME_MINUTES")
            ELSE Ratio(0, 1),
         success_rate |->
            IF total_runs > 0
            THEN Ratio(100 * CountStatus(fdf, "SUCCESS"), total_runs)
            ELSE Ratio(0, 1),
         total_compute_minutes |->
            IF HasRuntime(fdf) THEN series_sum(fdf, "EXECUTION_TIME_MINUTES")
            ELSE Ratio(0, 1),
         runs_delta |-> total_runs - prev_period_runs,
         raised |-> FALSE]

\* metrics computed without looking whether the frame is empty
CalculateMetrics_NoEmptyTest(fdf, pdf) == ComputeMetrics(fdf, pdf)

\* lines 254-267
CalculateMetrics(fdf, pdf) ==
    IF ~IsEmpty(fdf) THEN ComputeMetrics(fdf, pdf) ELSE ZeroMetrics

\* line 288
SuccessRate(fdf, m) ==
    IF ~IsEmpty(fdf) THEN Format1f(m.success_rate) \o "%" ELSE "0%"

\* line 282 and line 294
TimeMetric(x) ==
    IF ~IsNull(x) /\ Num(x) > 0 THEN format_execution_time(x) ELSE "0sec"

\* lines 269-295: the values and the four st.metric elements
MetricsRow(fdf, pdf) ==
    LET m == CalculateMetrics(fdf, pdf)
    IN  [values |-> m,
         pipeline_runs |-> ToString(m.total_runs),
         avg_execution_time |-> TimeMetric(m.avg_execution_time_minutes),
         success_rate |-> SuccessRate(fdf, m),
         total_compute_time |-> TimeMetric(m.total_compute_minutes)]

-----------------------------------------------------------------------------
(* Run table: search and sort (lines 373-460)                              *)

\* The characters of the strings of the model
Chars(s) ==
    CASE s = ""     -> <<>>
      [] s = "q1"   -> <<"q", "1">>
      [] s = "q2"   -> <<"q", "2">>
      [] s = "q3"   -> <<"q", "3">>
      [] s = "q4"   -> <<"q", "4">>
      [] s = "q5"   -> <<"q", "5">>
      [] s = "q6"   -> <<"q", "6">>
      [] s = "q7"   -> <<"q", "7">>
      [] s = "DB"   -> <<"D", "B">>
      [] s = "None" -> <<"N", "o", "n", "e">>
      [] s = "job"  -> <<"j", "o", "b">>
      [] s = "run"  -> <<"r", "u", "n">>
      [] s = "db"   -> <<"d", "b">>
      [] s = "Q1"   -> <<"Q", "1">>
      [] s = "ru"   -> <<"r", "u">>
      [] s = "on"   -> <<"o", "n">>
      [] s = "."    -> <<".">>
      [] s = "("    -> <<"(">>

\* str.lower() of a character
Lower(c) ==
    CASE c = "D" -> "d" [] c = "B" -> "b" [] c = "N" -> "n" [] c = "Q" -> "q"
      [] OTHER -> c

\* Series.astype(str): a missing value of an object column becomes "None"
astype_str(v) == IF IsNull(v) THEN "None" ELSE Val(v)

\* texts a user types in the search box
SearchTexts == {"", "db", "Q1", "ru", "on", ".", "("}

\* str.contains(pat, case=False) compiles pat as a regular expression
\* (regex=True is the default): "." matches any character, and an
\* unbalanced "(" is not a pattern: re.error is raised
re_compiles(pat) == "(" \notin Range(Chars(pat))

re_match_at(p, t, i) ==
    \A j \in 1..Len(p) : p[j] = "." \/ Lower(p[j]) = Lower(t[i + j - 1])

re_search(pat, text) ==
    LET p == Chars(pat)
        t == Chars(text)
    IN  \E i \in 1..(Len(t) - Len(p) + 1) : re_match_at(p, t, i)

\* lines 398-402
search_mask(r, search_query) ==
    \/ re_search(search_query, r.QUERY_ID)
    \/ re_search(search_query, astype_str(r.DATABASE_NAME))
    \/ re_search(search_query, r.QUERY_TEXT)

\* lines 384-393
sort_column_map ==
    ("End Time" :> "END_TIME") @@ ("Execution Time" :> "EXECUTION_TIME_MINUTES")
        @@ ("Status" :> "EXECUTION_STATUS") @@ ("Query ID" :> "QUERY_ID")
SortOrders == {"Descending", "Ascending"}

\* the strings of the sortable text columns in the order of str.__lt__
Alphabetical ==
    <<"FAILED", "RUNNING", "SUCCESS", "q1", "q2", "q3", "q4", "q5", "q6", "q7">>
Rank(s) == CHOOSE i \in 1..Len(Alphabetical) : Alphabetical[i] = s

SortKey(r, col) ==
    IF col \in {"END_TIME", "EXECUTION_TIME_MINUTES"} THEN r[col]
    ELSE Some(Rank(r[col]))

IndexOrders(n) ==
    {f \in [1..n -> 1..n] : \A i, j \in 1..n : i # j => f[i] # f[j]}

\* a comes before b, or ties with it, in the order of the column; missing
\* values are placed last in both directions (na_position='last')
InOrder(a, b, col, ascending) ==
    LET ka == SortKey(a, col)
        kb == SortKey(b, col)
    IN  \/ IsNull(kb)
        \/ /\ ~IsNull(ka)
           /\ IF ascending THEN Val(ka) <= Val(kb) ELSE Val(ka) >= Val(kb)

\* DataFrame.sort_values(col, ascending=ascending): kind='quicksort' is the
\* default and is not stable, so rows with equal keys come in an order
\* that the library chooses; every order of the ties is an outcome
sort_values(rows, col, ascending) ==
    {s \in {[i \in 1..Len(rows) |-> rows[f[i]]] : f \in IndexOrders(Len(rows))} :
        \A i, j \in 1..Len(s) : i < j => InOrder(s[i], s[j], col, ascending)}

\* the table controls of a first render
DefaultControls ==
    [search_query |-> "", sort_by |-> "End Time", sort_order |-> "Descending"]

AllControls ==
    {[search_query |-> q, sort_by |-> b, sort_order |-> o] :
        q \in SearchTexts, b \in DOMAIN sort_column_map, o \in SortOrders}

NoTable ==
    [outcome |-> "none", controls |-> <<>>, display_df |-> <<>>, readable |-> <<>>]

\* lines 425-427: the column EXECUTION_TIME_READABLE
Readable(df, rows) ==
    IF HasRuntime(df)
    THEN [i \in 1..Len(rows) |->
            format_execution_time(AsRatio(rows[i].EXECUTION_TIME_MINUTES))]
    ELSE <<>>

\* lines 376-460: the tables a render can show for the controls tc; an
\* exception of the search is not caught and ends the render
TableBlock(fdf, tc) ==
    IF IsEmpty(fdf) THEN {NoTable}
    ELSE IF tc.search_query # "" /\ ~re_compiles(tc.search_query)
    THEN {[outcome |-> "raised", controls |-> <<tc>>, display_df |-> <<>>,
           readable |-> <<>>]}
    ELSE LET Hit(r) == search_mask(r, tc.search_query)
             found == IF tc.search_query # "" THEN SelectSeq(fdf.rows, Hit)
                      ELSE fdf.rows
             sort_column == sort_column_map[tc.sort_by]
             ascending == tc.sort_order = "Ascending"
             sorted == IF sort_column \in fdf.columns
                       THEN sort_values(found, sort_column, ascending)
                       ELSE {found}
         IN  {[outcome |-> "shown", controls |-> <<tc>>, display_df |-> s,
               readable |-> Readable(fdf, s)] : s \in sorted}

-----------------------------------------------------------------------------
(* The history page (app_pages/2_history.py)                               *)

\* a memo that does not look at the argument of the call
CacheLookup_AnyKey(key) == cache_data[time_options[DefaultOptionIndex]]

\* @st.cache_data: the memoized value and the elements to replay, by
\* argument
CacheLookup(key) == cache_data[key]

\* lines 129-140
LoadStatus(df) ==
    IF IsEmpty(df) THEN {"warning: no pipeline data found"}
    ELSE {"success: loaded"}

\* lines 129-493: the script after the load, for the frame df the load
\* returned and the elements it showed.  The filter widgets hold one of the
\* values they offer, the table controls one of tcs.
AfterLoad(df, elements, all, tcs) ==
    \E policy \in NaTPolicies :
    \E w \in IF IsEmpty(df) \/ WidgetsRaise(df, policy) THEN {<<>>}
             ELSE WidgetChoices(df, all) :
    \E tc \in tcs :
       LET f == FilterBlock(df, w, policy)
       IN  /\ widgets' = f.widgets
           /\ criteria' = f.criteria
           /\ filter_outcome' = f.outcome
           /\ filtered_df' = f.filtered_df
           /\ metrics' = <<MetricsRow(f.filtered_df, df)>>
           /\ \E t \in TableBlock(f.filtered_df, tc) : table' = t
           /\ messages' = elements \cup LoadStatus(df) \cup f.elements

\* One run of the script without the refresh button: the selectbox holds
\* sel.  A cache entry and load_info also record, for the properties, the
\* call that computed the value (origin: the source then, and the window
\* asked).
RenderHistory(sel, all, tcs) ==
    /\ hist_pc = "rerun" => sel = selected_option
    /\ selected_option' = sel
    /\ hist_pc' = "idle"
    /\ LET hit == CacheLookup(sel) # NoEntry
           res == IF hit THEN CacheLookup(sel)[1]
                  ELSE load_pipeline_data(source, sel)
           origin == IF hit THEN CacheLookup(sel)[1].origin ELSE res.query.origin
           df == res.value
       IN  /\ cache_data' = IF hit THEN cache_data
                            ELSE [cache_data EXCEPT ![sel] =
                                    <<[value |-> res.value, elements |-> res.elements,
                                       origin |-> origin]>>]
           /\ query_cache' =
                 IF ~hit /\ res.query.sent /\ ~res.query.raised
                 THEN [query_cache EXCEPT ![history_query(sel)] =
                         <<[df |-> res.query.df, origin |-> origin]>>]
                 ELSE query_cache
           /\ load_info' = [window |-> sel, hit |-> hit, rerun |-> hist_pc = "rerun",
                            raised |-> ~hit /\ res.raised, origin |-> <<origin>>,
                            sent |-> ~hit /\ res.query.sent]
           /\ pipeline_df' = df
           /\ AfterLoad(df, res.elements, all, tcs)
    /\ UNCHANGED <<source, detailVars, configVars>>

\* a refresh button that reruns without clearing the cache
PressRefresh_NoClear ==
    /\ hist_pc = "idle"
    /\ hist_pc' = "rerun"
    /\ UNCHANGED <<source, cache_data, selected_option, load_info, pipeline_df,
                   messages, criteria, filter_outcome, filtered_df, widgets,
                   metrics, table, query_cache, detailVars, configVars>>

\* lines 115-117: the refresh button clears every memoized value
\* (st.cache_data.clear() empties the memo of every function, those of
\* conn.query and of the configuration page included) and asks for a rerun;
\* the script stops there.
PressRefresh ==
    /\ hist_pc = "idle"
    /\ cache_data' = [k \in DOMAIN cache_data |-> NoEntry]
    /\ query_cache' = [k \in DOMAIN query_cache |-> NoEntry]
    /\ check_cache' = [k \in DOMAIN check_cache |-> NoEntry]
    /\ hist_pc' = "rerun"
    /\ UNCHANGED <<source, selected_option, load_info, pipeline_df, messages,
                   criteria, filter_outcome, filtered_df, widgets, metrics,
                   table, detailVars, resources, config_pc, config_view>>

\* ttl=300: a memoized value is dropped once it is 5 minutes old
CacheExpire(key) ==
    /\ cache_data[key] # NoEntry
    /\ cache_data' = [cache_data EXCEPT ![key] = NoEntry]
    /\ UNCHANGED <<source, selected_option, hist_pc, load_info, pipeline_df,
                   messages, criteria, filter_outcome, filtered_df, widgets,
                   metrics, table, query_cache, detailVars, configVars>>

\* the source records the next run
RunRecorded ==
    /\ Cardinality(source.rows) < MaxRuns
    /\ source' = [source EXCEPT !.rows =
                    @ \cup {PoolRow(SourceTimeline[Cardinality(source.rows) + 1])}]
    /\ UNCHANGED <<cache_data, selected_option, hist_pc, load_info, pipeline_df,
                   messages, criteria, filter_outcome, filtered_df, widgets,
                   metrics, table, query_cache, detailVars, configVars>>

\* the source starts or stops refusing queries
SourceTurns(mode) ==
    /\ source.mode # mode
    /\ source' = [source EXCEPT !.mode = mode]
    /\ UNCHANGED <<cache_data, selected_option, hist_pc, load_info, pipeline_df,
                   messages, criteria, filter_outcome, filtered_df, widgets,
                   metrics, table, query_cache, detailVars, configVars>>

-----------------------------------------------------------------------------
(* The run-detail page (app_pages/3_detail.py) and conf.py                 *)

\* conf.py lines 32-36
NXF_WORKDIR_STAGE ==
    [key |-> "NXF_WORKDIR_STAGE", value |-> "NXF_WORKDIR",
     description |-> "Snowflake stage used for storing Nextflow intermediate files and artifacts"]

\* the files of the three tabs, in the order of the tabs
TabFiles == <<"report.html", "timeline.html", "trace.txt">>

\* run names a user enters or the history page passes
RunNames == {"r017n26s", "r42"}
\* a text with path separators that a user can enter as well
MalformedNames == {"r42/../r017n26s"}

\* a path built without the run name
stage_file_path_NoRun(run_name, file_name) ==
    "@" \o NXF_WORKDIR_STAGE.value \o "/" \o file_name

\* line 31
stage_file_path(run_name, file_name) ==
    "@" \o NXF_WORKDIR_STAGE.value \o "/" \o run_name \o "/" \o file_name

StagePaths == {stage_file_path(r, TabFiles[i]) : r \in RunNames, i \in 1..3}

StoreModes == {"up", "denied", "down"}

\* SnowflakeFile.open(stage_file_path, 'r').read(): the content, or an
\* exception with its text
OpenAndRead(path) ==
    CASE store.mode = "down"   -> [raised |-> TRUE, text |-> "connection lost"]
      [] store.mode = "denied" -> [raised |-> TRUE, text |-> "insufficient privileges"]
      [] path \notin store.files -> [raised |-> TRUE, text |-> "file does not exist"]
      [] OTHER -> [raised |-> FALSE, text |-> "content of " \o path]

\* lines 16-49; the result is the pair (success, content), content being
\* the sequence of the parts of the string; the path and the session of
\* the call are recorded with it
download_file_from_stage(session, run_name, file_name) ==
    LET path == stage_file_path(run_name, file_name)
        read == OpenAndRead(path)
    IN  IF ~read.raised
        THEN [session |-> session, path |-> path, success |-> TRUE,
              content |-> <<read.text>>]
        ELSE [session |-> session, path |-> path, success |-> FALSE,
              content |-> <<"Error reading file from stage: ", read.text>>]

\* a session function that is not memoized
get_snowflake_session_Uncached ==
    IF store.mode = "down"
    THEN [raised |-> TRUE, session |-> <<>>, cache |-> session_cache, opened |-> 0]
    ELSE [raised |-> FALSE, session |-> <<sessions_opened + 1>>,
          cache |-> session_cache, opened |-> 1]

\* lines 10-14, @st.cache_resource: the memoized session when there is
\* one; else conn.session(), whose result is memoized and whose exception
\* is not.  Sessions are numbered in the order they are opened.
get_snowflake_session ==
    IF session_cache # NoEntry
    THEN [raised |-> FALSE, session |-> session_cache, cache |-> session_cache,
          opened |-> 0]
    ELSE IF store.mode = "down"
    THEN [raised |-> TRUE, session |-> <<>>, cache |-> NoEntry, opened |-> 0]
    ELSE [raised |-> FALSE, session |-> <<sessions_opened + 1>>,
          cache |-> <<sessions_opened + 1>>, opened |-> 1]

\* a session block that reports the failure and goes on
SessionBlock_NoStop ==
    LET got == get_snowflake_session
    IN  [session |-> got.session, cache |-> got.cache, opened |-> got.opened,
         error |-> got.raised, stopped |-> FALSE, escaped |-> FALSE]

\* lines 131-136: the exception of the acquisition is caught, shown with
\* st.error, and st.stop() ends the render
SessionBlock ==
    LET got == get_snowflake_session
    IN  [session |-> got.session, cache |-> got.cache, opened |-> got.opened,
         error |-> got.raised, stopped |-> got.raised, escaped |-> FALSE]

\* tabs that end at the first download that fails
Tabs_StopAtFailure(session, run_name) ==
    LET all == [i \in 1..3 |-> download_file_from_stage(session, run_name, TabFiles[i])]
        last == SetMin({i \in 1..3 : ~all[i].success} \cup {3})
    IN  SubSeq(all, 1, last)

\* lines 138-285: the three tabs, each with one download
Tabs(session, run_name) ==
    [i \in 1..3 |-> download_file_from_stage(session, run_name, TabFiles[i])]

NoTyping == "<no typing>"

\* a resolution that reads the pending run name and leaves the query
\* parameter as it is
ResolveRunName_NoCopy ==
    IF selected_run_name # ""
    THEN [default_run_name |-> selected_run_name, query_param |-> query_param,
          selected_run_name |-> "", pending |-> selected_run_name]
    ELSE [default_run_name |-> query_param, query_param |-> query_param,
          selected_run_name |-> selected_run_name, pending |-> ""]

\* lines 51-63: the run name pending in the session state, when there is
\* one, is the default run name, is copied to the query parameter and is
\* cleared; otherwise the query parameter is the default run name ("" when
\* it is not set).  An entry of None reads as "".
ResolveRunName ==
    IF selected_run_name # ""
    THEN [default_run_name |-> selected_run_name, query_param |-> selected_run_name,
          selected_run_name |-> "", pending |-> selected_run_name]
    ELSE [default_run_name |-> query_param, query_param |-> query_param,
          selected_run_name |-> selected_run_name, pending |-> ""]

\* One run of the script.  typed is the text the user has entered in the
\* Run Name input since the last run (NoTyping when none), load_button is
\* the state of the Load Run Details button.
RenderDetail(typed, load_button) ==
    LET resolved == ResolveRunName
        default_run_name == resolved.default_run_name
        param1 == resolved.query_param
        \* lines 70-76
        input == IF typed # NoTyping THEN typed
                 ELSE IF run_name_input = None THEN default_run_name
                 ELSE run_name_input
        \* lines 82-89
        manual == load_button /\ input # ""
        run_name == IF manual THEN input ELSE default_run_name
        block == SessionBlock
        same_view == run_name = view.run_name
    IN  /\ selected_run_name' = resolved.selected_run_name
        /\ query_param' = IF manual THEN input ELSE param1
        /\ run_name_input' = input
        /\ IF run_name = ""
           THEN /\ view' = [run_name |-> "", pending |-> resolved.pending,
                            acquire_calls |-> 0, opened_in_view |-> 0,
                            acquired_in |-> view.acquired_in,
                            after_error |-> view.error,
                            error |-> FALSE, escaped |-> FALSE, session |-> <<>>,
                            fetches |-> <<>>]
                /\ UNCHANGED <<session_cache, sessions_opened>>
           ELSE /\ session_cache' = block.cache
                /\ sessions_opened' = sessions_opened + block.opened
                /\ sessions_opened' <= MaxSessions
                /\ view' = [run_name |-> run_name, pending |-> resolved.pending,
                            acquire_calls |-> 1,
                            opened_in_view |->
                               IF same_view THEN view.opened_in_view + block.opened
                               ELSE block.opened,
                            acquired_in |->
                               IF block.opened > 0 THEN run_name ELSE view.acquired_in,
                            after_error |-> view.error,
                            error |-> block.error, escaped |-> block.escaped,
                            session |-> block.session,
                            fetches |-> IF block.stopped THEN <<>>
                                        ELSE Tabs(block.session, run_name)]
    /\ UNCHANGED <<store, histVars, query_cache, configVars>>

\* the history page passes a run name (st.session_state["selected_run_name"])
HistoryNavigation(run) ==
    /\ selected_run_name' = run
    /\ UNCHANGED <<session_cache, sessions_opened, store, query_param,
                   run_name_input, view, histVars, query_cache, configVars>>

\* a pipeline writes an artifact to the stage
ArtifactWritten(path) ==
    /\ path \notin store.files
    /\ Cardinality(store.files) < MaxFiles
    /\ store' = [store EXCEPT !.files = @ \cup {path}]
    /\ UNCHANGED <<session_cache, sessions_opened, selected_run_name, query_param,
                   run_name_input, view, histVars, query_cache, configVars>>

\* the connection or the access to the stage changes
StoreTurns(mode) ==
    /\ store.mode # mode
    /\ store' = [store EXCEPT !.mode = mode]
    /\ UNCHANGED <<session_cache, sessions_opened, selected_run_name, query_param,
                   run_name_input, view, histVars, query_cache, configVars>>

DetailIdle ==
    /\ session_cache = NoEntry
    /\ sessions_opened = 0
    /\ store = [mode |-> "up", files |-> {}]
    /\ selected_run_name = ""
    /\ query_param = ""
    /\ run_name_input = None
    /\ view = [run_name |-> "", pending |-> "",
               acquire_calls |-> 0, opened_in_view |-> 0,
               acquired_in |-> "", after_error |-> FALSE,
               error |-> FALSE, escaped |-> FALSE, session |-> <<>>,
               fetches |-> <<>>]

-----------------------------------------------------------------------------
(* The configuration page (app_pages/3_configuration.py)                   *)
(*                                                                         *)
(* One render is two steps, the summary (lines 126-183) and the            *)
(* verification sections (lines 185-220): each calls the two memoized      *)
(* checks, and the memo and the resources may change between the calls.    *)

\* conf.py lines 26-30
NXF_HISTORY_TBL ==
    [key |-> "NXF_HISTORY_TBL", value |-> "NXF_EXECUTION_HISTORY",
     description |-> "Snowflake table used for storing Nextflow pipeline execution history and metadata"]

\* the resources the two checks are about
Checks == {"table", "stage"}

\* lines 13, 27 and 201-210: the SQL texts the page sends
table_probe(table_name) == "select 1 from " \o table_name
stage_probe(stage_name) == "select 1 from @" \o stage_name
debug_query == "SELECT CURRENT_USER() as CURRENT_USER, ..."

ProbeOf(c) == IF c = "table" THEN table_probe(NXF_HISTORY_TBL.value)
              ELSE stage_probe(NXF_WORKDIR_STAGE.value)

\* every SQL text conn.query is given
QueryTexts ==
    {history_query(h) : h \in UserOptions} \cup {ProbeOf(c) : c \in Checks}
       \cup {debug_query}

\* what the warehouse can be: reachable or not, with or without the table
\* and the stage
ResourceStates == [up : BOOLEAN, table : BOOLEAN, stage : BOOLEAN]

\* a statement of the page executed at the warehouse res
execute_probe(res, sql) ==
    IF ~res.up
    THEN [raised |-> TRUE, text |-> "Failed to connect to Snowflake"]
    ELSE IF \E c \in Checks : sql = ProbeOf(c) /\ ~res[c]
    THEN [raised |-> TRUE, text |-> "Object does not exist or not authorized"]
    ELSE [raised |-> FALSE, text |-> ""]

\* conn.query(sql) of the page: served from the memo of conn.query when it
\* holds the statement, executed otherwise; an exception is not memoized
conn_query_sql(sql) ==
    IF query_cache[sql] # NoEntry
    THEN [raised |-> FALSE, text |-> "", sent |-> FALSE]
    ELSE LET ans == execute_probe(resources, sql)
         IN  [raised |-> ans.raised, text |-> ans.text, sent |-> TRUE]

\* lines 6-18: the body of check_table_exists
check_table_exists(table_name) ==
    LET q == conn_query_sql(table_probe(table_name))
    IN  IF ~q.raised
        THEN [ok |-> TRUE, message |-> "[Check Passed] Table " \o table_name \o " exists.",
              sent |-> q.sent, raised |-> FALSE]
        ELSE [ok |-> FALSE, message |-> "Error checking table: " \o q.text,
              sent |-> q.sent, raised |-> FALSE]

\* lines 20-32: the body of check_stage_exists
check_stage_exists(stage_name) ==
    LET q == conn_query_sql(stage_probe(stage_name))
    IN  IF ~q.raised
        THEN [ok |-> TRUE, message |-> "[Check Passed] Stage " \o stage_name \o " exists.",
              sent |-> q.sent, raised |-> FALSE]
        ELSE [ok |-> FALSE, message |-> "Error checking stage: " \o q.text,
              sent |-> q.sent, raised |-> FALSE]

\* @st.cache_data(ttl=60): a call of a check, served from its memo when the
\* entry is there.  hit and sent tell how the call was served.
CallCheck(c) ==
    IF check_cache[c] # NoEntry
    THEN [ok |-> check_cache[c][1].ok, message |-> check_cache[c][1].message,
          hit |-> TRUE, sent |-> FALSE, raised |-> FALSE]
    ELSE LET r == IF c = "table" THEN check_table_exists(NXF_HISTORY_TBL.value)
                  ELSE check_stage_exists(NXF_WORKDIR_STAGE.value)
         IN  [ok |-> r.ok, message |-> r.message, hit |-> FALSE, sent |-> r.sent,
              raised |-> r.raised]

\* the memos after both checks were called once
CallBoth ==
    /\ check_cache' = [c \in Checks |->
                         <<[ok |-> CallCheck(c).ok, message |-> CallCheck(c).message]>>]
    /\ query_cache' = [k \in DOMAIN query_cache |->
                         IF \E c \in Checks :
                               k = ProbeOf(c) /\ CallCheck(c).sent /\ CallCheck(c).ok
                         THEN <<[df |-> "1"]>> ELSE query_cache[k]]

\* lines 126-183 without a press of the button: the summary calls both
\* checks and counts the outcomes
ConfigSummary ==
    /\ config_pc \in {"idle", "rerun"}
    /\ config_pc' = "summary"
    /\ CallBoth
    /\ LET checks_passed == Cardinality({c \in Checks : CallCheck(c).ok})
           checks_failed == Cardinality({c \in Checks : ~CallCheck(c).ok})
       IN  config_view' = [rerun |-> config_pc = "rerun",
                           summary |-> <<[c \in Checks |-> CallCheck(c)]>>,
                           total |-> checks_passed + checks_failed,
                           passed |-> checks_passed, failed |-> checks_failed,
                           verification |-> <<>>, debug |-> "none"]
    /\ UNCHANGED <<resources, histVars, detailVars>>

\* lines 185-220: history_table_verification() and
\* working_directory_stage_verification() call the checks again and show
\* their outcome; the debug expander queries the session context.
ConfigVerification ==
    /\ config_pc = "summary"
    /\ config_pc' = "idle"
    /\ check_cache' = [c \in Checks |->
                         <<[ok |-> CallCheck(c).ok, message |-> CallCheck(c).message]>>]
    /\ LET dbg == conn_query_sql(debug_query)
       IN  /\ query_cache' =
                 [k \in DOMAIN query_cache |->
                    IF \/ \E c \in Checks :
                             k = ProbeOf(c) /\ CallCheck(c).sent /\ CallCheck(c).ok
                       \/ k = debug_query /\ dbg.sent /\ ~dbg.raised
                    THEN <<[df |-> "1"]>> ELSE query_cache[k]]
           /\ config_view' =
                 [config_view EXCEPT
                    !.verification = <<[c \in Checks |->
                          [CallCheck(c) EXCEPT
                             !.message = IF CallCheck(c).ok THEN "success: " \o @
                                         ELSE "error: " \o @]]>>,
                    !.debug = IF dbg.raised THEN "error: Debug connection failed"
                              ELSE "dataframe"]
    /\ UNCHANGED <<resources, histVars, detailVars>>

\* lines 34-59 and 130-142: the refresh button of the sidebar clears the
\* memo of both checks and asks for a rerun; the script stops there.
check_again_button ==
    /\ config_pc = "idle"
    /\ check_cache' = [c \in Checks |-> NoEntry]
    /\ config_pc' = "rerun"
    /\ UNCHANGED <<resources, config_view, query_cache, histVars, detailVars>>

\* ttl=60: the entry of a check is dropped once it is one minute old
CheckExpire(c) ==
    /\ check_cache[c] # NoEntry
    /\ check_cache' = [check_cache EXCEPT ![c] = NoEntry]
    /\ UNCHANGED <<resources, config_pc, config_view, query_cache, histVars,
                   detailVars>>

\* the warehouse becomes reachable or not, the table or the stage is
\* created or dropped
ResourceTurns(res) ==
    /\ res # resources
    /\ resources' = res
    /\ UNCHANGED <<check_cache, config_pc, config_view, query_cache, histVars,
                   detailVars>>

ConfigIdle ==
    /\ query_cache = [k \in QueryTexts |-> NoEntry]
    /\ resources = [up |-> TRUE, table |-> TRUE, stage |-> TRUE]
    /\ check_cache = [c \in Checks |-> NoEntry]
    /\ config_pc = "idle"
    /\ config_view = [rerun |-> FALSE, summary |-> <<>>, total |-> 0, passed |-> 0,
                      failed |-> 0, verification |-> <<>>, debug |-> "none"]

HistInit ==
    /\ cache_data = [k \in UserOptions |-> NoEntry]
    /\ selected_option = time_options[DefaultOptionIndex]
    /\ hist_pc = "idle"
    /\ load_info = [window |-> selected_option, hit |-> FALSE, rerun |-> FALSE,
                    raised |-> FALSE, origin |-> <<>>, sent |-> FALSE]
    /\ pipeline_df = EmptyDataFrame
    /\ messages = {}
    /\ criteria = <<>>
    /\ filter_outcome = "none"
    /\ filtered_df = EmptyDataFrame
    /\ widgets = <<>>
    /\ metrics = <<>>
    /\ table = NoTable

\* The history page with a changing source
InitHistory ==
    /\ source = [mode |-> "ok", rows |-> {}]
    /\ HistInit
    /\ DetailIdle
    /\ ConfigIdle

NextHistory ==
    \/ \E sel \in UserOptions : RenderHistory(sel, FALSE, {DefaultControls})
    \/ PressRefresh
    \/ \E key \in UserOptions : CacheExpire(key)
    \/ RunRecorded
    \/ \E mode \in SourceModes : SourceTurns(mode)

SpecHistory == InitHistory /\ [][NextHistory]_vars

\* The run-detail page with a changing artifact store
InitDetail ==
    /\ source = [mode |-> "ok", rows |-> {}]
    /\ HistInit
    /\ DetailIdle
    /\ ConfigIdle

NextDetail ==
    \/ \E typed \in RunNames \cup MalformedNames \cup {"", NoTyping} :
       \E load_button \in BOOLEAN :
          RenderDetail(typed, load_button)
    \/ \E run \in RunNames : HistoryNavigation(run)
    \/ \E path \in StagePaths : ArtifactWritten(path)
    \/ \E mode \in StoreModes : StoreTurns(mode)

SpecDetail == InitDetail /\ [][NextDetail]_vars

\* The configuration page with a changing warehouse
InitConfig ==
    /\ source = [mode |-> "ok", rows |-> {}]
    /\ HistInit
    /\ DetailIdle
    /\ ConfigIdle

NextConfig ==
    \/ ConfigSummary
    \/ ConfigVerification
    \/ check_again_button
    \/ \E c \in Checks : CheckExpire(c)
    \/ \E res \in ResourceStates : ResourceTurns(res)

SpecConfig == InitConfig /\ [][NextConfig]_vars

\* The filter stage over every loaded run set and every widget value
InitFilter ==
    /\ source \in {[mode |-> "ok", rows |-> S] :
                     S \in {T \in SUBSET RunPool : Cardinality(T) <= MaxRuns}}
    /\ HistInit
    /\ DetailIdle
    /\ ConfigIdle

\* the first render of the page, with the widest window
NextFilter ==
    messages = {} /\ RenderHistory(time_options[7], TRUE, {DefaultControls})

SpecFilter == InitFilter /\ [][NextFilter]_vars

\* The run table over every loaded run set and every value of its controls
NextTable ==
    messages = {} /\ RenderHistory(time_options[7], FALSE, AllControls)

SpecTable == InitFilter /\ [][NextTable]_vars

\* The execution time format over every duration up to MaxDuration
\* seconds: a run of d seconds, alone or with a run of d + 1 seconds (their
\* mean has half a second)
FormatRow(id, d) ==
    Row(id, Some(2 * SecondsPerDay - d), Some(2 * SecondsPerDay), "SUCCESS",
        Some("DB"), "job")

InitFormat ==
    /\ source \in {[mode |-> "ok", rows |-> S] :
                     S \in {{FormatRow("q1", d)} : d \in 0..MaxDuration}
                        \cup {{FormatRow("q1", d), FormatRow("q2", d + 1)} :
                                 d \in 0..MaxDuration}}
    /\ HistInit
    /\ DetailIdle
    /\ ConfigIdle

NextFormat ==
    messages = {} /\ RenderHistory(time_options[7], FALSE, {DefaultControls})

SpecFormat == InitFormat /\ [][NextFormat]_vars

\* The filter stage over frames without the column EXECUTION_TIME_MINUTES.
\* load_pipeline_data adds the column to every frame that has rows, so the
\* frame is drawn here and lines 129-493 are applied to it.
DropColumn(df, col) ==
    [columns |-> df.columns \ {col},
     rows |-> [i \in 1..Len(df.rows) |->
                 [c \in df.columns \ {col} |-> df.rows[i][c]]]]

InitNoDuration ==
    /\ source = [mode |-> "ok", rows |-> {}]
    /\ cache_data = [k \in UserOptions |-> NoEntry]
    /\ selected_option = time_options[DefaultOptionIndex]
    /\ hist_pc = "idle"
    /\ load_info = [window |-> selected_option, hit |-> FALSE, rerun |-> FALSE,
                    raised |-> FALSE, origin |-> <<>>, sent |-> FALSE]
    /\ pipeline_df \in
          {DropColumn(Normalize(OrderByEndTimeDesc(S)), "EXECUTION_TIME_MINUTES") :
             S \in {T \in SUBSET RunPool : Cardinality(T) <= MaxRuns}}
    /\ messages = {}
    /\ criteria = <<>>
    /\ filter_outcome = "none"
    /\ filtered_df = EmptyDataFrame
    /\ widgets = <<>>
    /\ metrics = <<>>
    /\ table = NoTable
    /\ DetailIdle
    /\ ConfigIdle

NextNoDuration ==
    /\ messages = {}
    /\ AfterLoad(pipeline_df, {}, TRUE, {DefaultControls})
    /\ UNCHANGED <<source, cache_data, selected_option, hist_pc, load_info,
                   pipeline_df, query_cache, detailVars, configVars>>

SpecNoDuration == InitNoDuration /\ [][NextNoDuration]_vars

-----------------------------------------------------------------------------
(* Properties of the filter stage (SpecFilter)                             *)

Ids(rows) == [i \in 1..Len(rows) |-> rows[i].QUERY_ID]

InDateRange(r, c) ==
    ~IsNull(r.DATE) /\ c.start_date <= Val(r.DATE) /\ Val(r.DATE) <= c.end_date
InStatusSet(r, c) ==
    c.status_filter = {} \/ r.EXECUTION_STATUS \in c.status_filter
InDurationRange(r, c) ==
    /\ ~IsNull(r.EXECUTION_TIME_MINUTES)
    /\ c.runtime_range[1] * SecondsPerMinute <= Val(r.EXECUTION_TIME_MINUTES)
    /\ Val(r.EXECUTION_TIME_MINUTES) <= c.runtime_range[2] * SecondsPerMinute

\* the three runs of the example: SUCCESS 10 min, FAILED 20 min, SUCCESS 0 min
ExampleLoaded == Ids(pipeline_df.rows) = <<"q1", "q2", "q3">>
ExampleCriteria(c) ==
    /\ c.status_filter = {"SUCCESS"}
    /\ c.runtime_range = <<5, 15>>
    /\ c.start_date = min_date(pipeline_df)
    /\ c.end_date = max_date(pipeline_df)

\* C1: whenever the filter stage has applied the widget values, a loaded
\* run is in the filtered result if and only if it lies in the date range,
\* in the status set and in the duration range, the result keeps the
\* loaded order, and the example ({SUCCESS}, (5,15) over 10/20/0 minutes)
\* yields exactly the SUCCESS run of 10 minutes.
C1_FilterIsConjunction ==
    filter_outcome = "applied" =>
        LET c == criteria[1]
            Keep(r) == InDateRange(r, c) /\ InStatusSet(r, c) /\ InDurationRange(r, c)
        IN  /\ filtered_df.rows = SelectSeq(pipeline_df.rows, Keep)
            /\ \A i \in 1..Len(pipeline_df.rows) :
                  pipeline_df.rows[i] \in Range(filtered_df.rows)
                     <=> Keep(pipeline_df.rows[i])
            /\ (ExampleLoaded /\ ExampleCriteria(c))
                  => Ids(filtered_df.rows) = <<"q1">>

C1_Witness ==
    /\ filter_outcome = "applied"
    /\ ExampleLoaded
    /\ ExampleCriteria(criteria[1])
    /\ Ids(filtered_df.rows) = <<"q1">>

\* C2 (as claimed): with the widest widget values (full date range, no
\* status restriction, full duration range) the filtered result holds the
\* loaded records in the loaded order, also when a run has no END_TIME or
\* no duration.
C2_EmptyCriteriaNoOp ==
    (filter_outcome = "applied" /\ criteria[1] = WidestWidgets(pipeline_df))
        => filtered_df.rows = pipeline_df.rows

-----------------------------------------------------------------------------
(* Properties of the history load (SpecHistory)                            *)

Rendered == load_info.origin # <<>>

\* C3: the load of the rerun that follows a press of the refresh button
\* is a cache miss: it executes the query, and the frame shown is the
\* answer of the source as it is at that render.
C3_RefreshInvalidates ==
    /\ hist_pc = "rerun" => \A k \in DOMAIN cache_data : cache_data[k] = NoEntry
    /\ load_info.rerun =>
          /\ ~load_info.hit
          /\ load_info.sent
          /\ load_info.origin[1].window = load_info.window
          /\ hist_pc = "idle" =>
                pipeline_df = LoadedFrom(load_info.origin[1].source, load_info.window)

C3_Witness ==
    /\ load_info.rerun
    /\ hist_pc = "idle"
    /\ ~IsEmpty(pipeline_df)

\* C4: the frame a render filters and shows was computed, now or when it
\* was memoized, by a query for the window that render has selected.
C4_ResultBelongsToRequest ==
    Rendered =>
        LET origin == load_info.origin[1]
        IN  /\ load_info.window = selected_option
            /\ origin.window = selected_option
            /\ pipeline_df = LoadedFrom(origin.source, selected_option)
            /\ Range(filtered_df.rows) \subseteq Range(pipeline_df.rows)

\* a memoized result of the other window exists and differs from the one shown
C4_Witness ==
    /\ Rendered
    /\ load_info.hit
    /\ \E k \in DOMAIN cache_data :
          /\ k # selected_option
          /\ cache_data[k] # NoEntry
          /\ cache_data[k][1].value # pipeline_df

LoadFailed == Rendered /\ load_info.origin[1].source.mode # "ok"

QueryErrorKinds ==
    {"ConnectionFailed", "PermissionDenied", "RetentionLimitExceeded", "Unknown"}

\* C5 (as claimed): when the history query fails, the caller receives an
\* empty run sequence together with a structured error that carries a
\* kind and a message, and no exception leaves load_pipeline_data.
C5_StructuredQueryError ==
    LoadFailed =>
        /\ IsEmpty(pipeline_df)
        /\ ~load_info.raised
        /\ "error" \in DOMAIN pipeline_df
        /\ pipeline_df.error.kind \in QueryErrorKinds

\* C6 (as claimed): a render whose load was refused for the retention
\* limit does not reach the "no pipeline data found" state of a query
\* that matched no rows.
C6_RetentionDistinguished ==
    (Rendered /\ load_info.origin[1].source.mode = "retention")
        => "warning: no pipeline data found" \notin messages

-----------------------------------------------------------------------------
(* Properties of the run-detail page (SpecDetail)                          *)

Fetches == {view.fetches[i] : i \in 1..Len(view.fetches)}

\* C7: within one run-detail view (the renders of one active run) at most
\* one session is opened, a render asks for the session once, and the
\* report, timeline and trace fetches of a render are all given that one
\* session, which is the memoized one.
C7_SessionReused ==
    /\ view.acquire_calls <= 1
    /\ view.opened_in_view <= 1
    /\ \A f \in Fetches : f.session = view.session /\ f.session = session_cache
    /\ Fetches # {} => view.session # <<>>

C7_Witness ==
    /\ Len(view.fetches) = 3
    /\ view.opened_in_view = 0
    /\ \E f \in Fetches : f.success

C9_AcquireFailureReported ==
    /\ ~view.escaped
    /\ view.error =>
          /\ view.fetches = <<>>
          /\ view.session = <<>>
          /\ session_cache = NoEntry
    /\ (view.after_error /\ view.run_name # "" /\ ~view.error) =>
          /\ view.session # <<>>
          /\ Len(view.fetches) = 3

C9_Witness ==
    /\ view.error
    /\ view.run_name # ""
    /\ view.after_error

ArtifactKinds == <<"report", "timeline", "trace">>
ArtifactFilename ==
    [report |-> "report.html", timeline |-> "timeline.html", trace |-> "trace.txt"]

\* C10: the i-th fetch of a render asks for the path
\* @NXF_WORKDIR/<run name>/<file of the i-th kind>, whether or not the
\* artifact exists and whatever was fetched before.
C10_PathDeterministic ==
    /\ Len(view.fetches) \in {0, 3}
    /\ \A i \in 1..Len(view.fetches) :
          view.fetches[i].path =
             "@NXF_WORKDIR/" \o view.run_name \o "/" \o ArtifactFilename[ArtifactKinds[i]]

\* the timeline of r017n26s is asked for at its path although it is absent
C10_Witness ==
    /\ view.run_name = "r017n26s"
    /\ Len(view.fetches) = 3
    /\ view.fetches[2].path = "@NXF_WORKDIR/r017n26s/timeline.html"
    /\ ~view.fetches[2].success
    /\ view.fetches[1].success

ArtifactErrorKinds == {"NotFound", "AccessDenied", "ConnectionFailed"}

\* the stage is down, access is denied, or the file is absent
FetchCause(f) ==
    CASE "connection lost" \in Range(f.content) -> "ConnectionFailed"
      [] "insufficient privileges" \in Range(f.content) -> "AccessDenied"
      [] "file does not exist" \in Range(f.content) -> "NotFound"

\* C11 (as claimed): the value a failed fetch returns is one of the three
\* failure kinds NotFound, AccessDenied and ConnectionFailed, the kind of
\* its cause, and it carries the path that was attempted.
C11_FailureKindsCarryPath ==
    \A f \in Fetches :
        ~f.success =>
            /\ FetchCause(f) \in Range(f.content)
            /\ f.path \in Range(f.content)

\* C12 (as claimed): a render whose active run name is empty or holds a
\* path separator asks for no session and issues no fetch.
C12_RunNameValidated ==
    (view.run_name = "" \/ view.run_name \in MalformedNames) =>
        /\ view.acquire_calls = 0
        /\ view.fetches = <<>>

-----------------------------------------------------------------------------
(* Properties of the metrics row (SpecFilter)                              *)

Durations(df) ==
    {i \in 1..Len(df.rows) : ~IsNull(df.rows[i].EXECUTION_TIME_MINUTES)}

RECURSIVE DurationSum(_, _)
DurationSum(df, I) ==
    IF I = {} THEN 0
    ELSE LET i == CHOOSE k \in I : TRUE
         IN  Val(df.rows[i].EXECUTION_TIME_MINUTES) + DurationSum(df, I \ {i})

Successes(df) ==
    {i \in 1..Len(df.rows) : df.rows[i].EXECUTION_STATUS = "SUCCESS"}

\* the runs of 10, 20 and 0 minutes, in any order
ExampleFiltered == {filtered_df.rows[i].QUERY_ID : i \in 1..Len(filtered_df.rows)}
                       = {"q1", "q2", "q3"}

\* C13: for a filtered set that has runs, the count is the number of runs,
\* the average is the sum of the durations that are present over their
\* number, the success rate is 100 * SUCCESS runs / count, the total is
\* the sum of the durations that are present; the runs of 10, 20 and 0
\* minutes (SUCCESS, FAILED, SUCCESS) give 3, 10 minutes, 66.7% and 30
\* minutes in whatever order they are held.
C13_MetricsFormulas ==
    (metrics # <<>> /\ ~IsEmpty(filtered_df)) =>
        LET m == metrics[1].values
            I == Durations(filtered_df)
            n == Len(filtered_df.rows)
        IN  /\ m.total_runs = n
            /\ I # {} =>
                  /\ ~IsNull(m.avg_execution_time_minutes)
                  /\ Num(m.avg_execution_time_minutes) * Cardinality(I)
                        = DurationSum(filtered_df, I) * Den(m.avg_execution_time_minutes)
            /\ Num(m.success_rate) * n
                  = 100 * Cardinality(Successes(filtered_df)) * Den(m.success_rate)
            /\ Num(m.total_compute_minutes)
                  = DurationSum(filtered_df, I) * Den(m.total_compute_minutes)
            /\ ExampleFiltered =>
                  /\ m.total_runs = 3
                  /\ Num(m.avg_execution_time_minutes)
                        = 10 * SecondsPerMinute * Den(m.avg_execution_time_minutes)
                  /\ metrics[1].success_rate = "66.7%"
                  /\ Num(m.total_compute_minutes)
                        = 30 * SecondsPerMinute * Den(m.total_compute_minutes)

C13_Witness ==
    /\ metrics # <<>>
    /\ ExampleFiltered
    /\ metrics[1].pipeline_runs = "3"
    /\ metrics[1].avg_execution_time = "10min"
    /\ metrics[1].success_rate = "66.7%"
    /\ metrics[1].total_compute_time = "30min"

\* C14: when the filtered set has no runs (nothing was loaded, or every
\* run was filtered out) the four metrics are 0, nothing is raised, and
\* the row shows 0, 0sec, 0% and 0sec.
C14_EmptyMetricsZero ==
    (metrics # <<>> /\ IsEmpty(filtered_df)) =>
        /\ metrics[1].values = ZeroMetrics
        /\ ~metrics[1].values.raised
        /\ metrics[1].pipeline_runs = "0"
        /\ metrics[1].avg_execution_time = "0sec"
        /\ metrics[1].success_rate = "0%"
        /\ metrics[1].total_compute_time = "0sec"

\* every loaded run was filtered out
C14_Witness ==
    /\ metrics # <<>>
    /\ filter_outcome = "applied"
    /\ ~IsEmpty(pipeline_df)
    /\ IsEmpty(filtered_df)
    /\ metrics[1].values.total_runs = 0

-----------------------------------------------------------------------------
(* Properties of the execution time format (SpecFormat)                    *)

\* hours, minutes and seconds of a whole number of seconds
Components(total) ==
    [h |-> total \div SecondsPerHour,
     m |-> (total % SecondsPerHour) \div SecondsPerMinute,
     s |-> total % SecondsPerMinute]

\* '<h>hr<m>min<s>sec' without the components that are zero, '0sec' when
\* all are
Rendering(total) ==
    LET c == Components(total)
    IN  IF c.h = 0 /\ c.m = 0 /\ c.s = 0 THEN "0sec"
        ELSE (IF c.h = 0 THEN "" ELSE ToString(c.h) \o "hr")
                \o (IF c.m = 0 THEN "" ELSE ToString(c.m) \o "min")
                \o (IF c.s = 0 THEN "" ELSE ToString(c.s) \o "sec")

\* floor(minutes * 60) of a value that is not negative
FloorSeconds(x) == Num(x) \div Den(x)

RenderedAs(text, total) ==
    LET c == Components(total)
    IN  /\ text = Rendering(total)
        /\ text # ""
        /\ c.h * SecondsPerHour + c.m * SecondsPerMinute + c.s = total
        /\ c.m < SecondsPerMinute /\ c.s < SecondsPerMinute

\* C15: every execution time the table and the metrics row show for a
\* duration that is not negative is the rendering of floor(minutes * 60)
\* seconds as hours, minutes and seconds without the zero components,
\* never the empty string; 0 gives '0sec' and 62.5 minutes give
\* '1hr2min30sec'.
C15_FormatExecutionTime ==
    table.outcome = "shown" =>
        /\ \A i \in 1..Len(table.display_df) :
              LET d == Val(table.display_df[i].EXECUTION_TIME_MINUTES)
              IN  /\ RenderedAs(table.readable[i], d)
                  /\ d = 0 => table.readable[i] = "0sec"
                  /\ d = 62 * SecondsPerMinute + 30
                        => table.readable[i] = "1hr2min30sec"
        /\ RenderedAs(metrics[1].avg_execution_time,
                      FloorSeconds(metrics[1].values.avg_execution_time_minutes))
        /\ RenderedAs(metrics[1].total_compute_time,
                      FloorSeconds(metrics[1].values.total_compute_minutes))

\* a run of 62.5 minutes is shown
C15_Witness ==
    /\ table.outcome = "shown"
    /\ Len(table.display_df) = 1
    /\ Val(table.display_df[1].EXECUTION_TIME_MINUTES) = 62 * SecondsPerMinute + 30
    /\ table.readable[1] = "1hr2min30sec"
    /\ metrics[1].total_compute_time = "1hr2min30sec"

-----------------------------------------------------------------------------
(* Properties of the run table (SpecTable)                                 *)

Tied(a, b, col) == SortKey(a, col) = SortKey(b, col)

\* C16 (as claimed): the table is ordered by the sort column, and the runs
\* with equal values of that column are ordered among themselves by
\* QUERY_ID (all ascending, or all descending), so that the order shown
\* depends on the set of runs only.
C16_SortTiesByRunId ==
    table.outcome = "shown" =>
        LET s == table.display_df
            col == sort_column_map[table.controls[1].sort_by]
            ascending == table.controls[1].sort_order = "Ascending"
        IN  /\ \A i, j \in 1..Len(s) : i < j => InOrder(s[i], s[j], col, ascending)
            /\ \/ \A i, j \in 1..Len(s) :
                     (i < j /\ Tied(s[i], s[j], col))
                        => Rank(s[i].QUERY_ID) < Rank(s[j].QUERY_ID)
               \/ \A i, j \in 1..Len(s) :
                     (i < j /\ Tied(s[i], s[j], col))
                        => Rank(s[i].QUERY_ID) > Rank(s[j].QUERY_ID)

\* the text occurs in the string, letter case aside
LiteralHit(search_text, string) ==
    LET p == Chars(search_text)
        t == Chars(string)
    IN  \E i \in 1..(Len(t) - Len(p) + 1) :
           \A j \in 1..Len(p) : Lower(p[j]) = Lower(t[i + j - 1])

\* C19 (as claimed): for every search text the table holds exactly the
\* filtered runs whose QUERY_ID, DATABASE_NAME or QUERY_TEXT contains the
\* text as a literal substring, letter case aside; the empty text keeps
\* every run.
C19_SearchLiteralSubstring ==
    table.controls # <<>> =>
        LET q == table.controls[1].search_query
            Keep(r) ==
                \/ q = ""
                \/ LiteralHit(q, r.QUERY_ID)
                \/ ~IsNull(r.DATABASE_NAME) /\ LiteralHit(q, Val(r.DATABASE_NAME))
                \/ LiteralHit(q, r.QUERY_TEXT)
        IN  /\ table.outcome = "shown"
            /\ Range(table.display_df) = {r \in Range(filtered_df.rows) : Keep(r)}

-----------------------------------------------------------------------------
(* Properties of the filter stage on a frame without durations             *)
(* (SpecNoDuration)                                                        *)

\* C17: when the frame has no column EXECUTION_TIME_MINUTES the filter
\* stage applies the date range and the status set only (the duration
\* range is the fallback and excludes no run), and neither the filter
\* stage nor the metrics nor the table fails for the missing column: the
\* only error of the stage is the one for a missing END_TIME.
C17_MissingDurationTolerated ==
    (messages # {} /\ ~HasRuntime(pipeline_df)) =>
        /\ filter_outcome = "none" <=> IsEmpty(pipeline_df)
        /\ filter_outcome = "applied" =>
              LET c == criteria[1]
                  Keep(r) == InDateRange(r, c) /\ InStatusSet(r, c)
              IN  /\ c.runtime_range = FallbackRuntimeRange
                  /\ filtered_df.rows = SelectSeq(pipeline_df.rows, Keep)
        /\ filter_outcome = "error" =>
              /\ HasNull(pipeline_df, "DATE")
              /\ filtered_df = pipeline_df
        /\ ~metrics[1].values.raised
        /\ table.outcome # "raised"

\* two runs without durations pass the filter stage
C17_Witness ==
    /\ ~HasRuntime(pipeline_df)
    /\ filter_outcome = "applied"
    /\ Len(pipeline_df.rows) >= 2
    /\ filtered_df.rows = pipeline_df.rows
    /\ table.outcome = "shown"

-----------------------------------------------------------------------------
(* Further properties of the filter stage and of the load (SpecFilter)     *)

\* C18 (as claimed): when the date widgets hold a start date after the end
\* date, the render reports the error, filters with no date range at all
\* and does not put another range in its place.
C18_InvertedRangeRejected ==
    (widgets # <<>> /\ widgets[1].start_date > widgets[1].end_date) =>
        /\ "error: start date after end date" \in messages
        /\ filter_outcome # "applied"
        /\ criteria = <<>>

\* C20 (as claimed): every loaded run that has a START_TIME has a duration
\* that is present and not negative: END_TIME - START_TIME when the run
\* has ended, 0 when it has not.
C20_DurationNonNegative ==
    \A i \in 1..Len(pipeline_df.rows) :
        LET r == pipeline_df.rows[i]
        IN  ~IsNull(r.START_TIME) =>
              /\ ~IsNull(r.EXECUTION_TIME_MINUTES)
              /\ Val(r.EXECUTION_TIME_MINUTES) >= 0
              /\ IF IsNull(r.END_TIME) THEN Val(r.EXECUTION_TIME_MINUTES) = 0
                 ELSE Val(r.EXECUTION_TIME_MINUTES)
                         = Val(r.END_TIME) - Val(r.START_TIME)

-----------------------------------------------------------------------------
(* Properties of the default filter values (SpecFilter)                    *)

\* the render read every filter widget at its default value
AtDefaults ==
    /\ filter_outcome = "applied"
    /\ widgets = <<DefaultWidgets(pipeline_df)>>

-----------------------------------------------------------------------------
(* Properties of the artifact tabs and of the run name (SpecDetail)        *)

\* the render that ends in this state had a run name and got its session
SessionAcquired == view.run_name # "" /\ view.session # <<>>

\* the file of tab i can be read from the store
Readable_i(i, run_name) ==
    /\ store.mode = "up"
    /\ stage_file_path(run_name, TabFiles[i]) \in store.files

\* C24: a fetch lets no exception out and returns (True, content) or
\* (False, message); a render that got its session makes exactly three
\* fetches, of report.html, timeline.html and trace.txt in that order; and
\* each of the three succeeds exactly when its own file can be read,
\* whatever the outcome of the fetches before it.
C24_ThreeIndependentFetches ==
    /\ [](/\ ~view.escaped
          /\ ~SessionAcquired => view.fetches = <<>>
          /\ SessionAcquired =>
                /\ Len(view.fetches) = 3
                /\ \A i \in 1..3 :
                      LET f == view.fetches[i]
                      IN  /\ f.path = stage_file_path(view.run_name, TabFiles[i])
                          /\ f.success => f.content = <<"content of " \o f.path>>
                          /\ ~f.success =>
                                /\ Len(f.content) = 2
                                /\ f.content[1] = "Error reading file from stage: ")
    /\ [][(view' # view /\ view'.fetches # <<>>) =>
            \A i \in DOMAIN view'.fetches :
               view'.fetches[i].success <=> Readable_i(i, view'.run_name)]_vars

\* the report is missing, and the timeline and the trace are fetched and
\* shown all the same
C24_Witness ==
    /\ SessionAcquired
    /\ Len(view.fetches) = 3
    /\ ~view.fetches[1].success
    /\ view.fetches[2].success
    /\ view.fetches[3].success

-----------------------------------------------------------------------------
(* Properties of a failed history load (SpecHistory)                       *)

\* C22: a failed load is not memoized: a render that shows the outcome of a
\* load whose query raised has sent that query itself, it does not replay
\* the failure of an earlier render.
C22_FailureNotMemoized ==
    (Rendered /\ load_info.origin[1].source.mode # "ok") => load_info.sent

-----------------------------------------------------------------------------
(* Properties of the configuration page (SpecConfig)                       *)

\* the calls of the checks the last render made: those of the summary, then
\* those of the verification sections
CheckCalls ==
    {config_view.summary[i][c] : i \in 1..Len(config_view.summary), c \in Checks}
       \cup {config_view.verification[i][c] :
                i \in 1..Len(config_view.verification), c \in Checks}

\* C21: a check returns its pair and lets no exception out; a call served
\* from a valid memo entry sends no probe; and the render that follows a
\* press of the refresh button sends a fresh probe for the table and for
\* the stage.
C21_ProbeCachedAndInvalidated ==
    /\ \A call \in CheckCalls :
          /\ ~call.raised
          /\ call.hit => ~call.sent
    /\ config_pc = "rerun" => \A c \in Checks : check_cache[c] = NoEntry
    /\ config_view.rerun =>
          \A i \in 1..Len(config_view.summary) : \A c \in Checks :
             /\ ~config_view.summary[i][c].hit
             /\ config_view.summary[i][c].sent

\* C26: the summary counts two checks, passed + failed = 2, and the
\* outcome it counted for the table and for the stage is the outcome the
\* verification section of the same render shows for it.
C26_SummaryMatchesVerification ==
    /\ config_view.summary # <<>> =>
          /\ config_view.passed + config_view.failed = 2
          /\ config_view.total = 2
          /\ config_view.passed =
                Cardinality({c \in Checks : config_view.summary[1][c].ok})
    /\ config_view.verification # <<>> =>
          \A c \in Checks :
             config_view.verification[1][c].ok = config_view.summary[1][c].ok

====
